---- MODULE Spec2Model ----
(***************************************************************************)
(* WebGL Game of Life (src/js/gol.js, src/glsl/gol.frag).                  *)
(*                                                                         *)
(* A GOL instance owns two textures ("front" and "back") and one           *)
(* framebuffer.  A texture is modelled by its size and the red byte of     *)
(* each texel in row-major order (the code always writes r = g = b and     *)
(* reads only r; alpha is never read).  Texture objects live in one store  *)
(* and are referred to by id, as the GL objects are referred to by         *)
(* reference, so that a role swap is an exchange of ids.                   *)
(*                                                                         *)
(* Arrays (Uint8Array, state arrays) are sequences; JavaScript index i is  *)
(* position i + 1.  Cell values in state arrays are 0 / 1.                 *)
(***************************************************************************)
EXTENDS Integers, Sequences, FiniteSets, TLC

VARIABLES
    tex,        \* texture store: texture id -> [w, h, px]
    gols,       \* sequence of GOL instances, in order of construction
    unit0,      \* texture bound to texture unit 0 (0: none)
    glError,    \* the GL context's error flag
    timers,     \* the browser's active interval timers
    nextTimer,  \* next id setInterval hands out
    ctl,        \* instance the installed event handlers belong to (0: none)
    drag,       \* Controller.drag (0: null)
    save,       \* document._save (<<>> with saved = FALSE: undefined)
    saved,      \* whether _save has been assigned
    display,    \* what the last draw() rendered: [gol, px]
    pass,       \* the GPU pass in progress, if any
    codec,      \* a snapshot being compacted and expanded
    last,       \* the last command performed, its arguments and result
    nCmds,      \* number of commands performed so far
    budget      \* number of commands the behaviour may perform

vars == <<tex, gols, unit0, glError, timers, nextTimer, ctl, drag, save,
          saved, display, pass, codec, last, nCmds, budget>>

(***************************************************************************)
(* Bounds of the model.                                                    *)
(***************************************************************************)
GridW == 3          \* canvas width of the single-instance specifications
GridH == 3          \* canvas height of the single-instance specifications
MaxCmds == 1        \* commands per behaviour of Spec
MaxInitOdd == 1     \* cells of an initial grid of Spec unlike the majority
MaxRuleCmds == 1    \* commands per behaviour of SpecRule
MaxRuleOdd == 4     \* cells of an initial grid of SpecRule unlike the majority
MaxRandCells == 1   \* leading cells a modelled setRandom() draw may set alive
PassW == 2          \* canvas width of SpecPass
PassH == 2          \* canvas height of SpecPass
MaxPassCmds == 1    \* commands per behaviour of SpecPass
CanvasW == 4        \* canvas width of SpecCtl
CanvasH == 4        \* canvas height of SpecCtl
MaxCtlCmds == 4     \* events per behaviour of SpecCtl
MaxInterval == 120  \* doubling the interval stops here
MaxCodecLen == 16   \* longest state array given to GOL.compact
MaxCodecOdd == 3    \* cells of such an array that differ from the majority
MaxScaleCmds == 5   \* events per behaviour of SpecScale
MaxTempoCmds == 7   \* events per behaviour of SpecTempo
MaxLifeSide == 5    \* largest canvas side of SpecLife
MaxLifeOdd == 1     \* cells of a plain initial grid of SpecLife unlike most
MaxLifeCmds == 3    \* steps per behaviour of SpecLife
MaxBufCmds == 2     \* commands per behaviour of SpecBuffers
SnapW == 3          \* grid width of SpecSnap
SnapH == 3          \* grid height of SpecSnap
MaxSnapOdd == 1     \* cells of an initial grid of SpecSnap unlike the majority
MaxSnapCmds == 3    \* events per behaviour of SpecSnap

(***************************************************************************)
(* Arithmetic and arrays.                                                  *)
(***************************************************************************)
RECURSIVE Pow2(_)
Pow2(n) == IF n = 0 THEN 1 ELSE 2 * Pow2(n - 1)

RECURSIVE SumSeq(_)
SumSeq(s) == IF s = <<>> THEN 0 ELSE Head(s) + SumSeq(Tail(s))

\* All 0/1 arrays of length n.
BitArrays(n) == [1..n -> {0, 1}]

\* new Uint8Array(n): n zero bytes.
Zeros(n) == [i \in 1..n |-> 0]

(***************************************************************************)
(* The GOL constructor.                                                    *)
(***************************************************************************)
\* statesize is [w / scale, h / scale]; GL entry points and typed-array
\* lengths truncate it to an integer.
StateW(g) == g.viewsize[1] \div g.scale
StateH(g) == g.viewsize[2] \div g.scale
\* floor(statesize[0] * statesize[1]): the length of the arrays setRandom,
\* setEmpty and get allocate.
StateLen(g) == (g.viewsize[1] * g.viewsize[2]) \div (g.scale * g.scale)
\* Number of texels whose red byte fits in the rgba array of set():
\* Uint8Array(statesize[0] * statesize[1] * 4).
RgbaPixels(g) ==
    ((g.viewsize[1] * g.viewsize[2] * 4) \div (g.scale * g.scale) + 3) \div 4

\* igloo.texture(...).blank(w, h): a zero-filled texture.
Blank(w, h) == [w |-> w, h |-> h, px |-> Zeros(w * h)]

\* The instance record built by GOL(canvas, config); its textures get the
\* ids f and b.
NewGOL(cw, ch, scalePower, interval, f, b) ==
    [scalePower |-> scalePower,
     scale      |-> Pow2(scalePower),
     interval   |-> interval,
     viewsize   |-> <<cw, ch>>,
     timer      |-> 0,
     front      |-> f,
     back       |-> b,
     fb         |-> 0]

NoPass == [gol |-> 0, pending |-> {}, front |-> 0, back |-> 0,
           src |-> <<>>, dst |-> <<>>]
\* A command: its name, the instance, its arguments (x, y, alive, arr), the
\* array it returned (out) and the exception it threw, if any.
NoCmd == [op |-> "new", gol |-> 0, x |-> 0, y |-> 0, alive |-> FALSE,
          arr |-> <<>>, out |-> <<>>, threw |-> "none"]
NoCodec == [pc |-> "none", state |-> <<>>, bytes |-> <<>>, expanded |-> <<>>]
Cmd(op, i) == [NoCmd EXCEPT !.op = op, !.gol = i]

(***************************************************************************)
(* Texture upload: Igloo.Texture.subset -> gl.texSubImage2D.               *)
(***************************************************************************)
\* texSubImage2D rejects a rectangle that is not inside the texture
\* (INVALID_VALUE) or data too short for it (INVALID_OPERATION); a rejected
\* call raises no exception and writes nothing.
SubsetError(t, n, xoff, yoff, width, height) ==
    IF xoff < 0 \/ yoff < 0 \/ xoff + width > t.w \/ yoff + height > t.h
    THEN "INVALID_VALUE"
    ELSE IF n < width * height THEN "INVALID_OPERATION" ELSE "NO_ERROR"

\* The texture after subset(data, xoff, yoff, width, height); data holds the
\* red byte of each uploaded texel.
Subset(t, data, xoff, yoff, width, height) ==
    IF SubsetError(t, Len(data), xoff, yoff, width, height) # "NO_ERROR"
    THEN t
    ELSE [t EXCEPT !.px = [i \in 1..(t.w * t.h) |->
            LET x == (i - 1) % t.w
                y == (i - 1) \div t.w
            IN  IF /\ x >= xoff /\ x < xoff + width
                   /\ y >= yoff /\ y < yoff + height
                THEN data[(y - yoff) * width + (x - xoff) + 1]
                ELSE t.px[i]]]

NewError(old, e) == IF old = "NO_ERROR" THEN e ELSE old

(***************************************************************************)
(* GOL.prototype.set, setEmpty, poke, get.                                 *)
(***************************************************************************)
\* The red bytes of the rgba array set() builds: 255 or 0 for each index
\* of state that fits, 0 for the rest.
SetRgbaRaw(g, state) ==
    [i \in 1..RgbaPixels(g) |-> IF i <= Len(state) THEN state[i] ELSE 0]
SetRgba(g, state) ==
    [i \in 1..RgbaPixels(g) |->
        IF i <= Len(state) /\ state[i] # 0 THEN 255 ELSE 0]

\* The front texture after set(state).
SetTexMerge(texs, g, state) ==
    [texs[g.front] EXCEPT !.px = [i \in DOMAIN @ |->
        IF i <= RgbaPixels(g) /\ SetRgba(g, state)[i] > @[i]
        THEN SetRgba(g, state)[i] ELSE @[i]]]
SetTex(texs, g, state) ==
    Subset(texs[g.front], SetRgba(g, state), 0, 0, StateW(g), StateH(g))

\* v = state * 255
PokeValue(alive) == IF alive THEN 255 ELSE 0

\* The front texture after poke(x, y, alive).
PokeTexSwapped(texs, g, x, y, alive) ==
    Subset(texs[g.front], <<PokeValue(alive)>>, y, x, 1, 1)
PokeTex(texs, g, x, y, alive) ==
    Subset(texs[g.front], <<PokeValue(alive)>>, x, y, 1, 1)

\* The array get() returns: readPixels of the front texture, thresholded.
GetState(texs, g) ==
    [i \in 1..StateLen(g) |->
        IF i <= StateW(g) * StateH(g) /\ texs[g.front].px[i] > 128
        THEN 1 ELSE 0]

(***************************************************************************)
(* The fragment shader (src/glsl/gol.frag) and the pass of step().         *)
(***************************************************************************)
Offsets == <<<<-1, -1>>, <<-1, 0>>, <<-1, 1>>, <<0, -1>>,
             <<0, 1>>, <<1, -1>>, <<1, 0>>, <<1, 1>>>>

\* gl.REPEAT: the texture coordinate num / den is replaced by its
\* fractional part.  (The lookup is modelled for every texture size; a
\* WebGL 1 context samples a texture this way only when its sides are
\* powers of two.)
WrapClamp(num, den) ==
    IF num < 0 THEN 0 ELSE IF num >= den THEN den - 1 ELSE num
WrapRepeat(num, den) == num % den

\* gl.NEAREST lookup along one axis of the coordinate
\* (gl_FragCoord + offset) / scale, where gl_FragCoord = p + 0.5 and the
\* uniform scale is statesize = view / s: the coordinate is
\* (2 * (p + d) + 1) * s / (2 * view), and the texel is
\* floor(fract(coordinate) * n).
Texel(p, d, s, view, n) ==
    (WrapRepeat((2 * (p + d) + 1) * s, 2 * view) * n) \div (2 * view)

\* The texel get(offset) samples for the fragment (x, y).
SampleAt(g, x, y, off) ==
    <<Texel(x, off[1], g.scale, g.viewsize[1], StateW(g)),
      Texel(y, off[2], g.scale, g.viewsize[2], StateH(g))>>

\* int(texture2D(state, ...).r): the red byte as a float in [0, 1],
\* truncated.
GetInt(t, xy) == t.px[xy[2] * t.w + xy[1] + 1] \div 255

\* value of main(), as the byte written to the colour attachment.
RuleAny2(sumNhbrs, centre) ==
    IF sumNhbrs = 3 \/ sumNhbrs = 2 THEN 255 ELSE 0
RuleB3S2(sumNhbrs, centre) ==
    IF (centre = 0 /\ sumNhbrs = 3) \/ (centre = 1 /\ sumNhbrs = 2)
    THEN 255 ELSE 0
RuleB3Only(sumNhbrs, centre) == IF sumNhbrs = 3 THEN 255 ELSE 0
FragValue(sumNhbrs, centre) ==
    IF sumNhbrs = 3 \/ (centre = 1 /\ sumNhbrs = 2) THEN 255 ELSE 0

\* main() for the fragment (x, y), sampling the texture t.
FragColor(t, g, x, y) ==
    LET sumNhbrs == SumSeq([k \in 1..8 |->
                        GetInt(t, SampleAt(g, x, y, Offsets[k]))])
        centre   == GetInt(t, SampleAt(g, x, y, <<0, 0>>))
    IN  FragValue(sumNhbrs, centre)

\* The fragments of the viewport (0, 0, statesize[0], statesize[1]).
Fragments(g) == (0..(StateW(g) - 1)) \X (0..(StateH(g) - 1))

\* The texture the pass renders into: the framebuffer's attachment.
TargetFront(g) == g.front
RenderTarget(g) == g.fb

\* The store after the fragment c is shaded: it samples the texture bound
\* to unit u and writes the render target at c.
ShadeFragment(texs, g, u, c) ==
    [texs EXCEPT ![RenderTarget(g)].px[c[2] * StateW(g) + c[1] + 1] =
        FragColor(texs[u], g, c[1], c[2])]

\* draw(gl.TRIANGLE_STRIP, 4): every fragment of the set is shaded.
RECURSIVE RunPass(_, _, _, _)
RunPass(texs, g, u, frags) ==
    IF frags = {} THEN texs
    ELSE LET c == CHOOSE c \in frags : TRUE
         IN  RunPass(ShadeFragment(texs, g, u, c), g, u, frags \ {c})

\* GOL.prototype.swap
SwapNoTmp(g) == [g EXCEPT !.front = g.back]
SwapOf(g) == [g EXCEPT !.front = g.back, !.back = g.front]

\* step(), up to the draw call: attach back, bind front.
StepAttach(g) == [g EXCEPT !.fb = g.back]
\* The store and the instance after step().
StepTex(texs, g) == RunPass(texs, StepAttach(g), g.front, Fragments(g))
StepNoSwap(g) == StepAttach(g)
StepGol(g) == SwapOf(StepAttach(g))

(***************************************************************************)
(* Commands on one instance.  No handler runs while another is running,    *)
(* so every command waits for the pass in progress to end.                 *)
(***************************************************************************)
Idle == pass.gol = 0 /\ nCmds < budget

UnchangedDriver ==
    UNCHANGED <<timers, nextTimer, ctl, drag, save, saved, codec, budget>>

\* gol.step()
Step(i) ==
    /\ Idle
    /\ tex' = StepTex(tex, gols[i])
    /\ gols' = [gols EXCEPT ![i] = StepGol(gols[i])]
    /\ unit0' = gols[i].front
    /\ last' = Cmd("step", i)
    /\ nCmds' = nCmds + 1
    /\ UNCHANGED <<glError, display, pass>>
    /\ UnchangedDriver

\* gol.set(state)
Set(i, state) ==
    /\ Idle
    /\ tex' = [tex EXCEPT ![gols[i].front] = SetTex(tex, gols[i], state)]
    /\ unit0' = gols[i].front
    /\ glError' = NewError(glError,
            SubsetError(tex[gols[i].front], RgbaPixels(gols[i]), 0, 0,
                        StateW(gols[i]), StateH(gols[i])))
    /\ last' = [Cmd("set", i) EXCEPT !.arr = state]
    /\ nCmds' = nCmds + 1
    /\ UNCHANGED <<gols, display, pass>>
    /\ UnchangedDriver

\* The arrays a call of setRandom() may draw, within the model's bound:
\* rand[i] = Math.random() < p ? 1 : 0 for each i, the draws after the
\* first MaxRandCells all falling dead.
RandomArrays(g) ==
    LET n == StateLen(g)
        k == IF n < MaxRandCells THEN n ELSE MaxRandCells
    IN  {[i \in 1..n |-> IF i <= k THEN p[i] ELSE 0] : p \in BitArrays(k)}

\* gol.setRandom()
SetRandom(i) ==
    /\ Idle
    /\ \E rand \in RandomArrays(gols[i]) :
        /\ tex' = [tex EXCEPT ![gols[i].front] = SetTex(tex, gols[i], rand)]
        /\ last' = [Cmd("setRandom", i) EXCEPT !.arr = rand]
    /\ unit0' = gols[i].front
    /\ glError' = NewError(glError,
            SubsetError(tex[gols[i].front], RgbaPixels(gols[i]), 0, 0,
                        StateW(gols[i]), StateH(gols[i])))
    /\ nCmds' = nCmds + 1
    /\ UNCHANGED <<gols, display, pass>>
    /\ UnchangedDriver

\* gol.setEmpty()
SetEmpty(i) ==
    /\ Idle
    /\ tex' = [tex EXCEPT ![gols[i].front] =
                    SetTex(tex, gols[i], Zeros(StateLen(gols[i])))]
    /\ unit0' = gols[i].front
    /\ glError' = NewError(glError,
            SubsetError(tex[gols[i].front], RgbaPixels(gols[i]), 0, 0,
                        StateW(gols[i]), StateH(gols[i])))
    /\ last' = Cmd("setEmpty", i)
    /\ nCmds' = nCmds + 1
    /\ UNCHANGED <<gols, display, pass>>
    /\ UnchangedDriver

\* gol.poke(x, y, alive)
Poke(i, x, y, alive) ==
    /\ Idle
    /\ tex' = [tex EXCEPT ![gols[i].front] =
                    PokeTex(tex, gols[i], x, y, alive)]
    /\ unit0' = gols[i].front
    /\ glError' = NewError(glError,
            SubsetError(tex[gols[i].front], 1, x, y, 1, 1))
    /\ last' = [Cmd("poke", i) EXCEPT !.x = x, !.y = y, !.alive = alive]
    /\ nCmds' = nCmds + 1
    /\ UNCHANGED <<gols, display, pass>>
    /\ UnchangedDriver

\* gol.get()
Get(i) ==
    /\ Idle
    /\ gols' = [gols EXCEPT ![i].fb = gols[i].front]
    /\ last' = [Cmd("get", i) EXCEPT !.out = GetState(tex, gols[i])]
    /\ nCmds' = nCmds + 1
    /\ UNCHANGED <<tex, unit0, glError, display, pass>>
    /\ UnchangedDriver

\* gol.swap(); the command records in x and y the textures that were front
\* and back when it was called.
Swap(i) ==
    /\ Idle
    /\ gols' = [gols EXCEPT ![i] = SwapOf(gols[i])]
    /\ last' = [Cmd("swap", i) EXCEPT !.x = gols[i].front,
                                      !.y = gols[i].back]
    /\ nCmds' = nCmds + 1
    /\ UNCHANGED <<tex, unit0, glError, display, pass>>
    /\ UnchangedDriver

\* gol.draw(): the copy program renders the front texture to the canvas.
Draw(i) ==
    /\ Idle
    /\ display' = [gol |-> i, px |-> tex[gols[i].front].px]
    /\ unit0' = gols[i].front
    /\ last' = Cmd("draw", i)
    /\ nCmds' = nCmds + 1
    /\ UNCHANGED <<tex, gols, glError, pass>>
    /\ UnchangedDriver

(***************************************************************************)
(* Single-instance specifications.                                         *)
(***************************************************************************)
\* The 0/1 arrays of length n with at most k ones.
RECURSIVE SparseArrays(_, _)
SparseArrays(n, k) ==
    IF k = 0 THEN {Zeros(n)}
    ELSE LET fewer == SparseArrays(n, k - 1)
         IN  fewer \cup {[a EXCEPT ![i] = 1] : a \in fewer, i \in 1..n}

\* The 0/1 arrays of length n in which at most k cells differ from the
\* others: every array of length n when n <= 2 * k + 1.
MajorityArrays(n, k) ==
    SparseArrays(n, k) \cup
        {[i \in 1..n |-> 1 - a[i]] : a \in SparseArrays(n, k)}

\* The state after  g = new GOL(canvas, {scalePower: 0}); g.set(state)  on a
\* canvas of cw x ch pixels, for the 0/1 arrays state of the set states;
\* cmds is the number of commands the behaviour goes on to perform.
InitOne(cw, ch, states, cmds) ==
    /\ \E state \in states :
        LET g == NewGOL(cw, ch, 0, 60, 1, 2)
            blank == <<Blank(StateW(g), StateH(g)),
                       Blank(StateW(g), StateH(g))>>
        IN  /\ gols = <<g>>
            /\ tex = [blank EXCEPT ![1] = SetTex(blank, g, state)]
    /\ unit0 = 1
    /\ glError = "NO_ERROR"
    /\ timers = {}
    /\ nextTimer = 1
    /\ ctl = 0
    /\ drag = 0
    /\ save = <<>>
    /\ saved = FALSE
    /\ display = [gol |-> 0, px |-> <<>>]
    /\ pass = NoPass
    /\ codec = NoCodec
    /\ last = NoCmd
    /\ nCmds = 0
    /\ budget = cmds

\* The arguments the model passes to set(): full-size arrays and arrays one
\* cell shorter or longer, all dead or all alive.
SetArgs(g) ==
    {[i \in 1..n |-> b] : n \in {StateLen(g) - 1, StateLen(g),
                                 StateLen(g) + 1}, b \in {0, 1}}

\* The coordinates the model passes to poke(): the grid and a border of one
\* cell around it.
PokeXs(g) == (-1)..StateW(g)
PokeYs(g) == (-1)..StateH(g)

Init ==
    InitOne(GridW, GridH, MajorityArrays(GridW * GridH, MaxInitOdd), MaxCmds)

Next ==
    \/ Step(1)
    \/ \E s \in SetArgs(gols[1]) : Set(1, s)
    \/ SetRandom(1)
    \/ SetEmpty(1)
    \/ \E x \in PokeXs(gols[1]), y \in PokeYs(gols[1]), a \in BOOLEAN :
            Poke(1, x, y, a)
    \/ Get(1)
    \/ Draw(1)

Spec == Init /\ [][Next]_vars


(***************************************************************************)
(* GOL.compact and GOL.expand.  The state array given to compact holds     *)
(* booleans; bytes are integers in 0..255.                                 *)
(***************************************************************************)
\* Bit k of the byte b: (b >> k) & 1.
Bit(b, k) == (b \div Pow2(k)) % 2

\* a | b, stored into a Uint8Array.
BitOr(a, b) ==
    LET bits == [k \in 1..8 |->
                    IF Bit(a, k - 1) = 1 \/ Bit(b, k - 1) = 1
                    THEN Pow2(k - 1) ELSE 0]
    IN  SumSeq(bits) % 256

\* Length of new Uint8Array(state.length / 8): the quotient, truncated.
CompactLenCeil(n) == (n + 7) \div 8
CompactLen(n) == n \div 8

\* The loop of compact from index i on; a store past the end of the typed
\* array is dropped.
RECURSIVE CompactLoop(_, _, _)
CompactLoop(state, i, compact) ==
    IF i >= Len(state) THEN compact
    ELSE LET ii    == i \div 8
             shift == i % 8
             bit   == IF state[i + 1] THEN 1 ELSE 0
         IN  CompactLoop(state, i + 1,
                IF ii < Len(compact)
                THEN [compact EXCEPT ![ii + 1] = BitOr(@, bit * Pow2(shift))]
                ELSE compact)

\* GOL.compact(state)
CompactOf(state) == CompactLoop(state, 0, Zeros(CompactLen(Len(state))))

\* The shift expand applies for index i.
ExpandShiftHigh(i) == 7 - (i % 8)
ExpandShift(i) == i % 8

\* GOL.expand(buffer)
ExpandOf(compact) ==
    [j \in 1..(Len(compact) * 8) |->
        Bit(compact[((j - 1) \div 8) + 1], ExpandShift(j - 1))]

\* The boolean state arrays the model gives to compact: every length up to
\* MaxCodecLen, all cells but at most MaxCodecOdd of them equal.
CodecInputs ==
    UNION {{s \in [1..n -> BOOLEAN] :
                \E b \in BOOLEAN :
                    Cardinality({i \in 1..n : s[i] # b}) <= MaxCodecOdd} :
           n \in 0..MaxCodecLen}

InitCodec ==
    /\ codec \in {[NoCodec EXCEPT !.pc = "input", !.state = s] :
                    s \in CodecInputs}
    /\ gols = <<>>
    /\ tex = <<>>
    /\ unit0 = 0
    /\ glError = "NO_ERROR"
    /\ timers = {}
    /\ nextTimer = 1
    /\ ctl = 0
    /\ drag = 0
    /\ save = <<>>
    /\ saved = FALSE
    /\ display = [gol |-> 0, px |-> <<>>]
    /\ pass = NoPass
    /\ last = NoCmd
    /\ nCmds = 0
    /\ budget = 0

UnchangedGrid ==
    UNCHANGED <<tex, gols, unit0, glError, timers, nextTimer, ctl, drag,
                save, saved, display, pass, last, nCmds, budget>>

\* bytes = GOL.compact(state)
Compact ==
    /\ codec.pc = "input"
    /\ codec' = [codec EXCEPT !.pc = "compacted",
                              !.bytes = CompactOf(codec.state)]
    /\ UnchangedGrid

\* expanded = GOL.expand(bytes)
Expand ==
    /\ codec.pc = "compacted"
    /\ codec' = [codec EXCEPT !.pc = "expanded",
                              !.expanded = ExpandOf(codec.bytes)]
    /\ UnchangedGrid

NextCodec == Compact \/ Expand

SpecCodec == InitCodec /\ [][NextCodec]_vars

\* Steps and draws only, from every grid of GridW x GridH cells.
InitRule ==
    InitOne(GridW, GridH, MajorityArrays(GridW * GridH, MaxRuleOdd),
            MaxRuleCmds)

NextRule == Step(1) \/ Draw(1)

SpecRule == InitRule /\ [][NextRule]_vars

\* The index of the cell (x, y) in a state array of a grid w cells wide.
CellIndex(w, x, y) == y * w + x + 1

\* A 2 x 2 block of live cells whose first cell is (x, y), wrapping at the
\* edges of a w x h grid; all other cells dead.
BlockAt(w, h, x, y) ==
    [i \in 1..(w * h) |->
        IF i \in {CellIndex(w, (x + dx) % w, (y + dy) % h) :
                    dx \in {0, 1}, dy \in {0, 1}}
        THEN 1 ELSE 0]

\* The cells (1,0), (1,1), (1,2) alive on a w x h grid; all others dead.
Blinker(w, h) ==
    [i \in 1..(w * h) |->
        IF i \in {CellIndex(w, 1, y) : y \in 0..2} THEN 1 ELSE 0]

\* The initial grids of SpecLife of w x h cells: the blinker, every
\* placement of the block where it fits, and the plain grids.
LifeGrids(w, h) ==
    {Blinker(w, h)}
        \cup {BlockAt(w, h, x, y) : x \in 0..(w - 1), y \in 0..(h - 1)}
        \cup MajorityArrays(w * h, MaxLifeOdd)

\* g = new GOL(canvas, {scalePower: 0}); g.set(state); g.draw()  on a canvas
\* of 3 x 3 to MaxLifeSide x MaxLifeSide pixels, and then steps only: the
\* display goes on showing the initial generation.
InitLife ==
    /\ \E w \in 3..MaxLifeSide, h \in 3..MaxLifeSide :
        \E state \in LifeGrids(w, h) :
            LET g == NewGOL(w, h, 0, 60, 1, 2)
                blank == <<Blank(StateW(g), StateH(g)),
                           Blank(StateW(g), StateH(g))>>
            IN  /\ gols = <<g>>
                /\ tex = [blank EXCEPT ![1] = SetTex(blank, g, state)]
                /\ display = [gol |-> 1, px |-> tex[1].px]
    /\ unit0 = 1
    /\ glError = "NO_ERROR"
    /\ timers = {}
    /\ nextTimer = 1
    /\ ctl = 0
    /\ drag = 0
    /\ save = <<>>
    /\ saved = FALSE
    /\ pass = NoPass
    /\ codec = NoCodec
    /\ last = NoCmd
    /\ nCmds = 0
    /\ budget = MaxLifeCmds

NextLife == Step(1)

SpecLife == InitLife /\ [][NextLife]_vars

\* The buffer commands of one instance, two deep.
BufSets(g) ==
    {[i \in 1..(StateW(g) * StateH(g)) |-> b] : b \in {0, 1}}
BufPokes == {<<0, 0, TRUE>>, <<1, 1, FALSE>>}

InitBuffers ==
    InitOne(GridW, GridH, MajorityArrays(GridW * GridH, MaxInitOdd),
            MaxBufCmds)

NextBuffers ==
    \/ Step(1)
    \/ Swap(1)
    \/ \E s \in BufSets(gols[1]) : Set(1, s)
    \/ SetEmpty(1)
    \/ \E p \in BufPokes : Poke(1, p[1], p[2], p[3])
    \/ Get(1)
    \/ Draw(1)

SpecBuffers == InitBuffers /\ [][NextBuffers]_vars

(***************************************************************************)
(* The pass of step() fragment by fragment: the GPU shades the fragments   *)
(* of the draw call in no specified order, and step() swaps after the      *)
(* draw call.  pass remembers the instance, the fragments not yet shaded,  *)
(* and the roles and contents of the two textures when the pass began.     *)
(***************************************************************************)
\* step() up to the draw call.
PassBegin(i) ==
    /\ Idle
    /\ gols' = [gols EXCEPT ![i] = StepAttach(gols[i])]
    /\ unit0' = gols[i].front
    /\ pass' = [gol     |-> i,
                pending |-> Fragments(gols[i]),
                front   |-> gols[i].front,
                back    |-> gols[i].back,
                src     |-> tex[gols[i].front].px,
                dst     |-> tex[gols[i].back].px]
    /\ last' = Cmd("step", i)
    /\ nCmds' = nCmds + 1
    /\ UNCHANGED <<tex, glError, display>>
    /\ UnchangedDriver

\* One fragment of the draw call.
PassFragment(c) ==
    /\ pass.gol # 0
    /\ c \in pass.pending
    /\ tex' = ShadeFragment(tex, gols[pass.gol], unit0, c)
    /\ pass' = [pass EXCEPT !.pending = @ \ {c}]
    /\ UNCHANGED <<gols, unit0, glError, display, last, nCmds>>
    /\ UnchangedDriver

\* The draw call is complete: this.swap().
PassEnd ==
    /\ pass.gol # 0
    /\ pass.pending = {}
    /\ gols' = [gols EXCEPT ![pass.gol] = SwapOf(gols[pass.gol])]
    /\ pass' = NoPass
    /\ UNCHANGED <<tex, unit0, glError, display, last, nCmds>>
    /\ UnchangedDriver

InitPass == InitOne(PassW, PassH, BitArrays(PassW * PassH), MaxPassCmds)

NextPass ==
    \/ PassBegin(1)
    \/ \E c \in pass.pending : PassFragment(c)
    \/ PassEnd
    \/ SetEmpty(1)
    \/ Get(1)

SpecPass == InitPass /\ [][NextPass]_vars

(***************************************************************************)
(* Timers: GOL.prototype.start, stop, toggle.  A timer of the browser is   *)
(* [id, gol, ms]: the id setInterval returned, the instance its callback   *)
(* closes over and its period.  timer = 0 models this.timer == null.       *)
(* A world is the part of the state these methods touch.                   *)
(***************************************************************************)
World == [gols |-> gols, timers |-> timers, nextTimer |-> nextTimer]

NewTimerStale(w, i) ==
    [gols      |-> [w.gols EXCEPT ![i].timer = w.nextTimer],
     timers    |-> w.timers \cup {[id |-> w.nextTimer, gol |-> i, ms |-> 60]},
     nextTimer |-> w.nextTimer + 1]
NewTimer(w, i) ==
    [gols      |-> [w.gols EXCEPT ![i].timer = w.nextTimer],
     timers    |-> w.timers \cup {[id  |-> w.nextTimer,
                                   gol |-> i,
                                   ms  |-> w.gols[i].interval]},
     nextTimer |-> w.nextTimer + 1]

\* gol.start()
StartAlways(w, i) == NewTimer(w, i)
StartOf(w, i) == IF w.gols[i].timer = 0 THEN NewTimer(w, i) ELSE w

\* gol.stop(): clearInterval(this.timer); this.timer = null.
StopNoClear(w, i) == [w EXCEPT !.gols[i].timer = 0]
StopOf(w, i) ==
    [w EXCEPT !.timers = {t \in @ : t.id # w.gols[i].timer},
              !.gols[i].timer = 0]

\* gol.toggle()
ToggleOf(w, i) == IF w.gols[i].timer = 0 THEN StartOf(w, i) ELSE StopOf(w, i)

(***************************************************************************)
(* The Controller and its event handlers.  Every handler refers to the     *)
(* instance ctl the Controller was built for; building a Controller        *)
(* replaces the handlers of the one before.                                *)
(***************************************************************************)
CtlIdle == pass.gol = 0 /\ nCmds < budget /\ ctl # 0

Event(op) ==
    /\ last' = Cmd(op, ctl)
    /\ nCmds' = nCmds + 1

SetWorld(w) ==
    /\ gols' = w.gols
    /\ timers' = w.timers
    /\ nextTimer' = w.nextTimer

\* The GL error flag after a whole-texture upload by set().
SetError(g) ==
    NewError(glError, SubsetError(tex[g.front], RgbaPixels(g), 0, 0,
                                  StateW(g), StateH(g)))

\* $(document).ready: new GOL(canvas, {scalePower: 2, interval: 60}) and
\* new Controller(gol), which calls setRandom(), draw() and start(), on a
\* canvas of cw x ch pixels; rands is the set of arrays setRandom() may
\* draw and cmds the number of events the behaviour goes on to perform.
InitController(cw, ch, rands, cmds) ==
    /\ \E rand \in rands :
        LET g == NewGOL(cw, ch, 2, 60, 1, 2)
            blank == <<Blank(StateW(g), StateH(g)),
                       Blank(StateW(g), StateH(g))>>
            w == StartOf([gols |-> <<g>>, timers |-> {}, nextTimer |-> 1], 1)
        IN  /\ tex = [blank EXCEPT ![1] = SetTex(blank, g, rand)]
            /\ display = [gol |-> 1, px |-> tex[1].px]
            /\ gols = w.gols
            /\ timers = w.timers
            /\ nextTimer = w.nextTimer
    /\ unit0 = 1
    /\ glError = "NO_ERROR"
    /\ ctl = 1
    /\ drag = 0
    /\ save = <<>>
    /\ saved = FALSE
    /\ pass = NoPass
    /\ codec = NoCodec
    /\ last = NoCmd
    /\ nCmds = 0
    /\ budget = cmds

InitCtl ==
    InitController(CanvasW, CanvasH,
                   RandomArrays(NewGOL(CanvasW, CanvasH, 2, 60, 1, 2)),
                   MaxCtlCmds)

\* keyup r: gol.setRandom(); gol.draw()
KeyR ==
    /\ CtlIdle
    /\ \E rand \in RandomArrays(gols[ctl]) :
        /\ tex' = [tex EXCEPT ![gols[ctl].front] =
                        SetTex(tex, gols[ctl], rand)]
        /\ last' = [Cmd("r", ctl) EXCEPT !.arr = rand]
    /\ nCmds' = nCmds + 1
    /\ display' = [gol |-> ctl, px |-> tex'[gols[ctl].front].px]
    /\ unit0' = gols[ctl].front
    /\ glError' = SetError(gols[ctl])
    /\ UNCHANGED <<gols, timers, nextTimer, ctl, drag, save, saved, pass,
                   codec, budget>>

\* keyup delete: gol.setEmpty(); gol.draw()
KeyDelete ==
    /\ CtlIdle
    /\ tex' = [tex EXCEPT ![gols[ctl].front] =
                    SetTex(tex, gols[ctl], Zeros(StateLen(gols[ctl])))]
    /\ display' = [gol |-> ctl, px |-> tex'[gols[ctl].front].px]
    /\ unit0' = gols[ctl].front
    /\ glError' = SetError(gols[ctl])
    /\ Event("delete")
    /\ UNCHANGED <<gols, timers, nextTimer, ctl, drag, save, saved, pass,
                   codec, budget>>

\* keyup space: gol.toggle()
KeySpace ==
    /\ CtlIdle
    /\ SetWorld(ToggleOf(World, ctl))
    /\ Event("toggle")
    /\ UNCHANGED <<tex, unit0, glError, ctl, drag, save, saved, display,
                   pass, codec, budget>>

\* gol.start(), called by the driver
Start ==
    /\ CtlIdle
    /\ SetWorld(StartOf(World, ctl))
    /\ Event("start")
    /\ UNCHANGED <<tex, unit0, glError, ctl, drag, save, saved, display,
                   pass, codec, budget>>

\* gol.stop(), called by the driver
Stop ==
    /\ CtlIdle
    /\ SetWorld(StopOf(World, ctl))
    /\ Event("stop")
    /\ UNCHANGED <<tex, unit0, glError, ctl, drag, save, saved, display,
                   pass, codec, budget>>

\* keyup s: this._save = gol.get()
KeySave ==
    /\ CtlIdle
    /\ save' = GetState(tex, gols[ctl])
    /\ saved' = TRUE
    /\ gols' = [gols EXCEPT ![ctl].fb = gols[ctl].front]
    /\ last' = [Cmd("save", ctl) EXCEPT !.out = save']
    /\ nCmds' = nCmds + 1
    /\ UNCHANGED <<tex, unit0, glError, timers, nextTimer, ctl, drag,
                   display, pass, codec, budget>>

\* keyup shift-s: if (this._save) gol.set(this._save)
KeyRestore ==
    /\ CtlIdle
    /\ IF saved
       THEN /\ tex' = [tex EXCEPT ![gols[ctl].front] =
                            SetTex(tex, gols[ctl], save)]
            /\ unit0' = gols[ctl].front
            /\ glError' = SetError(gols[ctl])
       ELSE UNCHANGED <<tex, unit0, glError>>
    /\ last' = [Cmd("restore", ctl) EXCEPT !.arr = save]
    /\ nCmds' = nCmds + 1
    /\ UNCHANGED <<gols, timers, nextTimer, ctl, drag, save, saved, display,
                   pass, codec, budget>>

\* The interval after comma and after period.
DoubledPlain(interval) == interval * 2
Doubled(interval) == IF interval = 0 THEN 1 ELSE interval * 2
Halved(interval) == interval \div 2

\* keyup comma: double the interval; gol.stop(); gol.start()
KeyComma ==
    /\ CtlIdle
    /\ Doubled(gols[ctl].interval) <= MaxInterval
    /\ SetWorld(StartOf(StopOf(
            [World EXCEPT !.gols[ctl].interval = Doubled(@)], ctl), ctl))
    /\ Event("comma")
    /\ UNCHANGED <<tex, unit0, glError, ctl, drag, save, saved, display,
                   pass, codec, budget>>

\* keyup period: halve the interval; gol.stop(); gol.start()
KeyPeriod ==
    /\ CtlIdle
    /\ SetWorld(StartOf(StopOf(
            [World EXCEPT !.gols[ctl].interval = Halved(@)], ctl), ctl))
    /\ Event("period")
    /\ UNCHANGED <<tex, unit0, glError, ctl, drag, save, saved, display,
                   pass, codec, budget>>

\* The guards of the dash and equals cases.
CanRescaleWide(g, d) == IF d < 0 THEN g.scalePower - 1 >= 0
                                 ELSE g.scalePower <= 6
CanRescale(g, d) == IF d < 0 THEN g.scalePower - 1 >= 0
                             ELSE g.scalePower + 1 <= 6

\* keyup dash (d = -1) and equals (d = 1): if the new scale power is in
\* range, gol.stop(); gol.setEmpty(); newGol = new GOL(...);
\* new Controller(newGol), which calls setRandom(), draw() and start().
Rescale(d, op) ==
    /\ CtlIdle
    /\ IF CanRescale(gols[ctl], d)
       THEN LET old == gols[ctl]
                n   == Len(gols) + 1
                g   == NewGOL(old.viewsize[1], old.viewsize[2],
                              old.scalePower + d, old.interval,
                              Len(tex) + 1, Len(tex) + 2)
                stopped == StopOf(World, ctl)
                emptied == [tex EXCEPT ![old.front] =
                                SetTex(tex, old, Zeros(StateLen(old)))]
                grown == emptied \o <<Blank(StateW(g), StateH(g)),
                                      Blank(StateW(g), StateH(g))>>
            IN  /\ \E rand \in RandomArrays(g) :
                    tex' = [grown EXCEPT ![g.front] = SetTex(grown, g, rand)]
                /\ SetWorld(StartOf(
                        [stopped EXCEPT !.gols = Append(@, g)], n))
                /\ display' = [gol |-> n, px |-> tex'[g.front].px]
                /\ unit0' = g.front
                /\ glError' = NewError(SetError(old),
                        SubsetError(grown[g.front], RgbaPixels(g), 0, 0,
                                    StateW(g), StateH(g)))
                /\ ctl' = n
                /\ drag' = 0
       ELSE UNCHANGED <<tex, gols, timers, nextTimer, display, unit0,
                        glError, ctl, drag>>
    /\ last' = Cmd(op, ctl)
    /\ nCmds' = nCmds + 1
    /\ UNCHANGED <<save, saved, pass, codec, budget>>

KeyDash == Rescale(-1, "dash")
KeyEquals == Rescale(1, "equals")

\* The cells eventCoord may report in the model: a cell of the grid and the
\* cell left of it, under the border.
MouseCells == {<<0, 0>>, <<-1, 0>>}
\* event.which: left and right button.
MouseButtons == {1, 3}

\* poke(x, y, alive); draw() of the mouse handlers.
PokeAndDraw(x, y, alive) ==
    /\ tex' = [tex EXCEPT ![gols[ctl].front] =
                    PokeTex(tex, gols[ctl], x, y, alive)]
    /\ glError' = NewError(glError,
            SubsetError(tex[gols[ctl].front], 1, x, y, 1, 1))
    /\ display' = [gol |-> ctl, px |-> tex'[gols[ctl].front].px]
    /\ unit0' = gols[ctl].front

\* mousedown
MouseDown(c, which) ==
    /\ CtlIdle
    /\ drag' = which
    /\ PokeAndDraw(c[1], c[2], which = 1)
    /\ last' = [Cmd("mousedown", ctl) EXCEPT
                    !.x = c[1], !.y = c[2], !.alive = (which = 1)]
    /\ nCmds' = nCmds + 1
    /\ UNCHANGED <<gols, timers, nextTimer, ctl, save, saved, pass, codec,
                   budget>>

\* mouseup
MouseUp ==
    /\ CtlIdle
    /\ drag' = 0
    /\ Event("mouseup")
    /\ UNCHANGED <<tex, gols, unit0, glError, timers, nextTimer, ctl, save,
                   saved, display, pass, codec, budget>>

\* mousemove
MouseMove(c) ==
    /\ CtlIdle
    /\ IF drag # 0
       THEN PokeAndDraw(c[1], c[2], drag = 1)
       ELSE UNCHANGED <<tex, glError, display, unit0>>
    /\ last' = [Cmd("mousemove", ctl) EXCEPT
                    !.x = c[1], !.y = c[2], !.alive = (drag = 1)]
    /\ nCmds' = nCmds + 1
    /\ UNCHANGED <<gols, timers, nextTimer, ctl, drag, save, saved, pass,
                   codec, budget>>

\* The callback of the timer t: gol.step(); gol.draw().
Tick(t) ==
    /\ pass.gol = 0 /\ nCmds < budget
    /\ t \in timers
    /\ tex' = StepTex(tex, gols[t.gol])
    /\ gols' = [gols EXCEPT ![t.gol] = StepGol(gols[t.gol])]
    /\ display' = [gol |-> t.gol, px |-> tex'[gols'[t.gol].front].px]
    /\ unit0' = gols'[t.gol].front
    /\ last' = Cmd("tick", t.gol)
    /\ nCmds' = nCmds + 1
    /\ UNCHANGED <<glError, timers, nextTimer, ctl, drag, save, saved, pass,
                   codec, budget>>

NextCtl ==
    \/ KeyR
    \/ KeyDelete
    \/ KeySpace
    \/ Start
    \/ Stop
    \/ KeySave
    \/ KeyRestore
    \/ KeyComma
    \/ KeyPeriod
    \/ KeyDash
    \/ KeyEquals
    \/ \E c \in MouseCells, b \in MouseButtons : MouseDown(c, b)
    \/ MouseUp
    \/ \E c \in MouseCells : MouseMove(c)
    \/ \E t \in timers : Tick(t)

SpecCtl == InitCtl /\ [][NextCtl]_vars

\* Changes of scale only, with the timer running or paused.
InitScale ==
    InitController(CanvasW, CanvasH,
                   RandomArrays(NewGOL(CanvasW, CanvasH, 2, 60, 1, 2)),
                   MaxScaleCmds)

NextScale ==
    \/ KeyDash
    \/ KeyEquals
    \/ KeySpace
    \/ \E t \in timers : Tick(t)

SpecScale == InitScale /\ [][NextScale]_vars

\* Changes of interval only, with the timer running or paused.
InitTempo ==
    InitController(CanvasW, CanvasH,
                   RandomArrays(NewGOL(CanvasW, CanvasH, 2, 60, 1, 2)),
                   MaxTempoCmds)

NextTempo ==
    \/ KeyComma
    \/ KeyPeriod
    \/ KeySpace
    \/ \E t \in timers : Tick(t)

SpecTempo == InitTempo /\ [][NextTempo]_vars

\* Saving and restoring on a grid of SnapW x SnapH cells (the canvas is 4
\* pixels per cell at the scale power 2 of $(document).ready), the first
\* setRandom() having drawn any array of the set.
InitSnap ==
    InitController(4 * SnapW, 4 * SnapH,
                   MajorityArrays(SnapW * SnapH, MaxSnapOdd), MaxSnapCmds)

NextSnap ==
    \/ KeySave
    \/ KeyRestore
    \/ KeyR
    \/ KeyDelete
    \/ \E c \in MouseCells, b \in MouseButtons : MouseDown(c, b)
    \/ \E t \in timers : Tick(t)

SpecSnap == InitSnap /\ [][NextSnap]_vars

(***************************************************************************)
(* Observations the properties are stated in.                              *)
(***************************************************************************)
\* The cell (x, y) of the texture t is alive, as get() decides it.
Alive(t, x, y) == t.px[y * t.w + x + 1] > 128

\* The live cells among ((x + dx) mod w, (y + dy) mod h), one per offset.
LiveNeighbours(t, x, y) ==
    Cardinality({d \in ((-1)..1) \X ((-1)..1) :
        /\ d # <<0, 0>>
        /\ Alive(t, (x + d[1]) % t.w, (y + d[2]) % t.h)})

\* The transition is the command op on some instance.
Did(op) == nCmds' = nCmds + 1 /\ last'.op = op

Cells(t) == (0..(t.w - 1)) \X (0..(t.h - 1))

\* C1: after one step() a cell of the new front generation is alive iff it
\* had exactly 3 live neighbours in the pre-step front generation, or was
\* alive there and had exactly 2.
C1_StepRule ==
    [][Did("step") =>
        LET old == tex[gols[last'.gol].front]
            new == tex'[gols'[last'.gol].front]
        IN  /\ new.w = old.w /\ new.h = old.h
            /\ \A c \in Cells(old) :
                Alive(new, c[1], c[2]) <=>
                    \/ LiveNeighbours(old, c[1], c[2]) = 3
                    \/ /\ Alive(old, c[1], c[2])
                       /\ LiveNeighbours(old, c[1], c[2]) = 2]_vars

\* After a step (back holds the pre-step generation): a dead cell with 3
\* live neighbours was born and a live cell with 2 survived.
C1_Witness ==
    /\ last.op = "step"
    /\ LET new == tex[gols[1].front]
           old == tex[gols[1].back]
       IN  /\ \E c \in Cells(old) :
                /\ ~Alive(old, c[1], c[2]) /\ Alive(new, c[1], c[2])
                /\ LiveNeighbours(old, c[1], c[2]) = 3
           /\ \E c \in Cells(old) :
                /\ Alive(old, c[1], c[2]) /\ Alive(new, c[1], c[2])
                /\ LiveNeighbours(old, c[1], c[2]) = 2

\* C2: the 8 texels the shader samples for the cell (x, y) are the cells
\* ((x + dx) mod width, (y + dy) mod height), (dx, dy) # (0, 0), edge and
\* corner cells included; on a 3 x 3 grid the cell (0, 0) samples
\* (2,2), (2,0), (2,1), (0,2), (0,1), (1,2), (1,0), (1,1).
C2_Toroidal ==
    \A i \in 1..Len(gols) :
        LET g == gols[i]
        IN  /\ \A c \in Fragments(g), k \in 1..8 :
                SampleAt(g, c[1], c[2], Offsets[k]) =
                    <<(c[1] + Offsets[k][1]) % StateW(g),
                      (c[2] + Offsets[k][2]) % StateH(g)>>
            /\ (StateW(g) = 3 /\ StateH(g) = 3) =>
                [k \in 1..8 |-> SampleAt(g, 0, 0, Offsets[k])] =
                    <<<<2, 2>>, <<2, 0>>, <<2, 1>>, <<0, 2>>,
                      <<0, 1>>, <<1, 2>>, <<1, 0>>, <<1, 1>>>>

\* A step in which the only live cells were the whole last column, and a
\* cell of column 0 was born from them across the wrapped edge.
C2_Witness ==
    /\ last.op = "step"
    /\ LET new == tex[gols[1].front]
           old == tex[gols[1].back]
       IN  /\ old.w >= 3
           /\ \A c \in Cells(old) : Alive(old, c[1], c[2]) <=> c[1] = old.w - 1
           /\ \E y \in 0..(old.h - 1) : Alive(new, 0, y)

\* In-bounds coordinates of the instance g.
InBounds(g, x, y) == x >= 0 /\ x < StateW(g) /\ y >= 0 /\ y < StateH(g)

\* C6: poke(x, y, alive) with (x, y) in bounds: get() afterwards equals
\* get() before at every index except y * width + x, where it is alive;
\* the back buffer is unchanged.
C6_PokeFrame ==
    [][(Did("poke") /\ InBounds(gols[last'.gol], last'.x, last'.y)) =>
        LET g == gols[last'.gol]
            before == GetState(tex, g)
            after  == GetState(tex', gols'[last'.gol])
            idx    == last'.y * StateW(g) + last'.x + 1
        IN  /\ after = [before EXCEPT ![idx] = IF last'.alive THEN 1 ELSE 0]
            /\ gols'[last'.gol].back = g.back
            /\ gols'[last'.gol].front = g.front
            /\ tex'[g.back] = tex[g.back]]_vars

\* A poke in bounds, off the first row and column, that set a cell alive
\* while other cells are dead and yet others alive.
C6_Witness ==
    /\ last.op = "poke" /\ last.alive
    /\ InBounds(gols[1], last.x, last.y) /\ last.x > 0 /\ last.y > 0
    /\ LET t == tex[gols[1].front]
       IN  /\ Alive(t, last.x, last.y)
           /\ \E c \in Cells(t) :
                c # <<last.x, last.y>> /\ Alive(t, c[1], c[2])
           /\ \E c \in Cells(t) : ~Alive(t, c[1], c[2])

\* C7: every poke with x outside [0, width) or y outside [0, height) fails
\* with an OutOfBounds error and leaves both buffers unchanged.
C7_OutOfBounds ==
    [][(Did("poke") /\ ~InBounds(gols[last'.gol], last'.x, last'.y)) =>
        /\ last'.threw = "OutOfBounds"
        /\ tex' = tex]_vars

\* C8: set(state) with Len(state) # width * height fails with a
\* SizeMismatch error and leaves front unchanged; with a correctly sized
\* array it overwrites every cell of front.
C8_SizeMismatch ==
    [][Did("set") =>
        LET g == gols[last'.gol]
            n == StateW(g) * StateH(g)
        IN  IF Len(last'.arr) # n
            THEN /\ last'.threw = "SizeMismatch"
                 /\ tex'[g.front] = tex[g.front]
            ELSE /\ last'.threw = "none"
                 /\ \A i \in 1..n :
                        tex'[g.front].px[i] =
                            IF last'.arr[i] # 0 THEN 255 ELSE 0]_vars

\* C4: for every boolean array S whose length is a multiple of 8,
\* expand(compact(S)) equals S element for element; compact stores cell i at
\* bit i % 8 of byte floor(i / 8); expand returns M * 8 values for M bytes.
C4_RoundTrip ==
    /\ (codec.pc = "expanded") =>
            Len(codec.expanded) = 8 * Len(codec.bytes)
    /\ (codec.pc \in {"compacted", "expanded"} /\ Len(codec.state) % 8 = 0) =>
            /\ 8 * Len(codec.bytes) = Len(codec.state)
            /\ \A i \in 0..(Len(codec.state) - 1) :
                (Bit(codec.bytes[(i \div 8) + 1], i % 8) = 1)
                    <=> codec.state[i + 1]
    /\ (codec.pc = "expanded" /\ Len(codec.state) % 8 = 0) =>
            /\ Len(codec.expanded) = Len(codec.state)
            /\ \A i \in 1..Len(codec.state) :
                (codec.expanded[i] = 1) <=> codec.state[i]

\* A two-byte snapshot, expanded, whose bytes differ and are neither empty
\* nor full.
C4_Witness ==
    /\ codec.pc = "expanded"
    /\ Len(codec.state) = 16
    /\ codec.bytes[1] \notin {0, 255}
    /\ codec.bytes[2] \notin {0, 255, codec.bytes[1]}

\* C5 (as claimed): compact returns ceil(N / 8) bytes for every N, and the
\* final partial byte holds the trailing cells N - (N mod 8) .. N - 1 at
\* bits 0 .. (N mod 8) - 1, its high bits zero.
C5_CeilLength ==
    (codec.pc \in {"compacted", "expanded"}) =>
        LET n == Len(codec.state)
            m == (n + 7) \div 8
        IN  /\ Len(codec.bytes) = m
            /\ (n % 8 # 0) =>
                \A k \in 0..7 :
                    (Bit(codec.bytes[m], k) = 1)
                        <=> (k < n % 8 /\ codec.state[n - (n % 8) + k + 1])

\* C5 (amended): compact returns floor(N / 8) bytes; cell i is stored at bit
\* i % 8 of byte floor(i / 8) for i < 8 * floor(N / 8), and the trailing
\* N mod 8 cells are stored nowhere.
C5_FloorLength ==
    (codec.pc \in {"compacted", "expanded"}) =>
        LET n == Len(codec.state)
            m == n \div 8
        IN  /\ Len(codec.bytes) = m
            /\ \A i \in 0..(8 * m - 1) :
                (Bit(codec.bytes[(i \div 8) + 1], i % 8) = 1)
                    <=> codec.state[i + 1]
            /\ codec.bytes = CompactOf(SubSeq(codec.state, 1, 8 * m))

\* A compacted array with a partial final byte whose trailing cells include
\* a live one.
C5_Witness ==
    /\ codec.pc = "compacted"
    /\ Len(codec.state) > 8
    /\ Len(codec.state) % 8 # 0
    /\ codec.state[Len(codec.state)]
    /\ codec.bytes # <<0>>

\* The cell c of the generation after the one held in t, by the rule.
NextAlive(t, c) ==
    \/ LiveNeighbours(t, c[1], c[2]) = 3
    \/ Alive(t, c[1], c[2]) /\ LiveNeighbours(t, c[1], c[2]) = 2

\* While a pass is in progress: the roles are those of its start, reads come
\* from front and writes go to back, front holds what it held at the start,
\* and each cell of back holds its old value until it is written and the
\* next generation of front afterwards.
PassInv ==
    (pass.gol # 0) =>
        LET g == gols[pass.gol]
            f == tex[g.front]
            b == tex[g.back]
        IN  /\ g.front = pass.front /\ g.back = pass.back
            /\ g.front # g.back
            /\ unit0 = pass.front /\ g.fb = pass.back
            /\ f.px = pass.src
            /\ \A c \in Fragments(g) :
                LET idx == c[2] * b.w + c[1] + 1
                IN  IF c \in pass.pending
                    THEN b.px[idx] = pass.dst[idx]
                    ELSE b.px[idx] = IF NextAlive(f, c) THEN 255 ELSE 0

\* The roles of an instance change only at the end of a pass on it, when
\* every cell of back has been written, and no texel changes with them.
SwapAtEnd ==
    \A i \in 1..Len(gols) :
        (gols'[i].front # gols[i].front \/ gols'[i].back # gols[i].back) =>
            /\ pass.gol = i /\ pass.pending = {} /\ pass'.gol = 0
            /\ gols'[i].front = pass.back /\ gols'[i].back = pass.front
            /\ tex' = tex
            /\ \A c \in Cells(tex[pass.back]) :
                Alive(tex'[gols'[i].front], c[1], c[2])
                    <=> NextAlive([tex[pass.front] EXCEPT !.px = pass.src], c)

\* C3: during every step() all reads come from the buffer that is front at
\* the start and all writes go to the buffer that is back at the start;
\* front is not modified during the pass, and the swap happens only after
\* every cell of back has been written.
C3_DoubleBuffer == [](PassInv) /\ [][SwapAtEnd]_vars

\* A pass half done: some fragments shaded, some not, and a cell already
\* written to back that differs from the same cell of front.
C3_Witness ==
    /\ pass.gol # 0
    /\ pass.pending # {}
    /\ pass.pending # Fragments(gols[pass.gol])
    /\ \E c \in Fragments(gols[pass.gol]) \ pass.pending :
        Alive(tex[pass.back], c[1], c[2]) # Alive(tex[pass.front], c[1], c[2])

\* C9: after any sequence of driver commands at most one interval timer is
\* active across all instances: every active timer is the one its instance
\* holds in this.timer, so start() while Running created no second timer
\* and every restart cancelled the timer before.
C9_OneTimer ==
    /\ Cardinality(timers) <= 1
    /\ \A t \in timers : t.gol \in 1..Len(gols) /\ gols[t.gol].timer = t.id
    /\ Cardinality({i \in 1..Len(gols) : gols[i].timer # 0}) <= 1

\* start() was called while Running, after a change of scale had stopped
\* one instance and started the next: one timer, that of the new instance,
\* and no timer id was handed out by the call.
C9_Witness ==
    /\ last.op = "start"
    /\ Len(gols) >= 2
    /\ nextTimer = Len(gols) + 1
    /\ \E t \in timers : t.gol = Len(gols) /\ timers = {t}
    /\ gols[1].timer = 0

\* Running and Stopped: an instance holds a timer id iff the browser has
\* that timer active for it.
RunState ==
    \A i \in 1..Len(gols) :
        (gols[i].timer # 0) <=>
            (\E t \in timers : t.gol = i /\ t.id = gols[i].timer)

\* toggle() moves Stopped to Running and Running to Stopped; a tick happens
\* only for a Running instance, and performs step() and then draw() on it:
\* the front generation becomes the next generation and is what is shown.
ToggleAndTick ==
    /\ Did("toggle") =>
        ((gols[ctl].timer = 0) <=> (gols'[ctl].timer # 0))
    /\ Did("tick") =>
        LET i   == last'.gol
            old == tex[gols[i].front]
            new == tex'[gols'[i].front]
        IN  /\ gols[i].timer # 0
            /\ gols'[i].front = gols[i].back
            /\ \A c \in Cells(old) :
                    Alive(new, c[1], c[2]) <=> NextAlive(old, c)
            /\ display' = [gol |-> i, px |-> new.px]
    /\ \A i \in 1..Len(gols) :
        (gols[i].timer = 0 /\ i \in DOMAIN gols') =>
            /\ ~(Did("tick") /\ last'.gol = i)
            /\ (tex'[gols'[i].front].px # tex[gols[i].front].px
                    \/ gols'[i].front # gols[i].front)
                => last'.op \in {"r", "delete", "restore", "mousedown",
                                 "mousemove", "dash", "equals"}

\* C10: the run state is Stopped (timer == null) or Running; toggle()
\* switches between them; in Running every tick performs step() and then
\* draw() on the same instance; in Stopped no tick occurs and the front
\* generation changes only through explicit commands.
C10_RunState == [](RunState) /\ [][ToggleAndTick]_vars

\* A tick of a Running instance whose step changed the generation shown,
\* after the instance had been toggled.
C10_Witness ==
    /\ last.op = "tick"
    /\ nextTimer > 2
    /\ gols[last.gol].timer # 0
    /\ display.gol = last.gol
    /\ display.px = tex[gols[last.gol].front].px
    /\ display.px # tex[gols[last.gol].back].px

\* No cell of the texture t is alive.
AllDead(t) == \A c \in Cells(t) : ~Alive(t, c[1], c[2])

\* The transition is a dash or equals whose new scale power is in range.
Rescaled ==
    \/ Did("dash") /\ gols[ctl].scalePower - 1 >= 0
    \/ Did("equals") /\ gols[ctl].scalePower + 1 <= 6

\* C11: a scale increment or decrement within bounds replaces the grid by a
\* new grid at the new resolution whose state is cleared: right after the
\* command every cell of the grid now simulated and displayed is dead.
C11_RescaleClears ==
    [][Rescaled =>
        /\ ctl' = Len(gols) + 1
        /\ gols'[ctl'].scalePower =
                gols[ctl].scalePower + (IF last'.op = "dash" THEN -1 ELSE 1)
        /\ AllDead(tex'[gols'[ctl'].front])
        /\ display'.gol = ctl'
        /\ \A i \in DOMAIN display'.px : display'.px[i] <= 128]_vars

\* C12 (as claimed): after any sequence of interval doublings and halvings
\* from the default interval 60 the interval is at least 1; halving never
\* takes it below 1.
C12_AtLeastOne == \A i \in 1..Len(gols) : gols[i].interval >= 1

\* What a halving and a doubling do to the interval.
IntervalSteps ==
    /\ Did("period") =>
        /\ 2 * gols'[ctl].interval <= gols[ctl].interval
        /\ gols[ctl].interval <= 2 * gols'[ctl].interval + 1
        /\ (gols[ctl].interval >= 2 => gols'[ctl].interval >= 1)
    /\ Did("comma") =>
        /\ gols'[ctl].interval >= 1
        /\ (gols[ctl].interval >= 1 =>
                gols'[ctl].interval = 2 * gols[ctl].interval)

\* C12 (amended): the interval is never negative; halving gives
\* floor(interval / 2), which is at least 1 from 2 or more and 0 from 1 or
\* 0; doubling gives 1 from 0 and twice the interval otherwise, so it is at
\* least 1 after every doubling.
C12_HalvesToZero ==
    /\ [](\A i \in 1..Len(gols) : gols[i].interval >= 0)
    /\ [][IntervalSteps]_vars

\* Six halvings took the interval from 60 to 0 and a doubling then took it
\* to 1.
C12_Witness ==
    /\ last.op = "comma"
    /\ nCmds = 7
    /\ gols[ctl].interval = 1
    /\ \E t \in timers : t.ms = 1

\* The scale power of every instance is in 0..6 and its magnification is
\* that power of two, one of 1, 2, 4, ..., 64.
ScaleInRange ==
    \A i \in 1..Len(gols) :
        /\ gols[i].scalePower \in 0..6
        /\ gols[i].scale = Pow2(gols[i].scalePower)
        /\ gols[i].scale \in {1, 2, 4, 8, 16, 32, 64}

\* A dash at scale power 0 and an equals at scale power 6 change nothing:
\* no instance, texture, timer, handler or displayed frame.
RefusedRescale ==
    ((Did("dash") \/ Did("equals")) /\ ~Rescaled) =>
        UNCHANGED <<tex, gols, timers, nextTimer, ctl, drag, display,
                    unit0, glError, save, saved>>

\* C13: after any sequence of scale increments and decrements the scale
\* power of the active simulation stays within 0..6, the magnification
\* being a power of two in 1..64; a command that would leave the range
\* changes nothing (grid, timer and scale are left as they were).
C13_ScaleRange == [](ScaleInRange) /\ [][RefusedRescale]_vars

\* An equals refused at scale power 6, reached by four increments from the
\* initial power 2, with the timer of the active instance still running.
C13_Witness ==
    /\ last.op = "equals"
    /\ nCmds = 5
    /\ Len(gols) = 5
    /\ ctl = 5
    /\ gols[ctl].scalePower = 6
    /\ gols[ctl].timer # 0

(***************************************************************************)
(* Patterns.  In SpecLife the display shows the generation the behaviour   *)
(* began with, and nCmds steps have been performed since.                  *)
(***************************************************************************)
\* The live cells of the texture t.
LiveCells(t) == {c \in Cells(t) : Alive(t, c[1], c[2])}

\* The front and back textures of the instance shown, and the texture the
\* display shows.
Front == tex[gols[display.gol].front]
Back == tex[gols[display.gol].back]
Shown == [Front EXCEPT !.px = display.px]

\* The generation after the one held in t, by the rule.
NextGen(t) ==
    [t EXCEPT !.px = [i \in 1..(t.w * t.h) |->
        IF NextAlive(t, <<(i - 1) % t.w, (i - 1) \div t.w>>)
        THEN 255 ELSE 0]]

\* The generation n generations after the one held in t.
RECURSIVE Gen(_, _)
Gen(t, n) == IF n <= 0 THEN t ELSE Gen(NextGen(t), n - 1)

\* The live cells of t are a 2 x 2 block, possibly across a wrapped edge.
IsBlock(t) ==
    \E c \in Cells(t) :
        LiveCells(t) = {<<(c[1] + dx) % t.w, (c[2] + dy) % t.h>> :
                            dx \in {0, 1}, dy \in {0, 1}}

\* C14: on every toroidal grid at least 4 wide and 4 high a 2 x 2 block of
\* live cells on an otherwise dead grid is a fixed point: after any number
\* of step() calls the front generation equals the initial one, for every
\* placement of the block, across the wrapped edge too.
C14_BlockStill ==
    (display.gol # 0 /\ Shown.w >= 4 /\ Shown.h >= 4 /\ IsBlock(Shown)) =>
        /\ Front.px = Shown.px
        /\ Cardinality(LiveCells(Front)) = 4

\* Two or more steps from a block that lies across both wrapped edges of a
\* grid that is not square.
C14_Witness ==
    /\ display.gol # 0 /\ nCmds >= 2 /\ last.op = "step"
    /\ Shown.w = 4 /\ Shown.h = 5
    /\ LiveCells(Shown) = {<<3, 4>>, <<0, 4>>, <<3, 0>>, <<0, 0>>}
    /\ Front.px = Shown.px

\* The blinker and the line perpendicular to it through (1, 1).
BlinkerCells == {<<1, 0>>, <<1, 1>>, <<1, 2>>}
FlippedCells == {<<0, 1>>, <<1, 1>>, <<2, 1>>}

\* One step from the blinker gives the perpendicular line and a second
\* step gives the blinker again.
BlinkerFlips ==
    (display.gol # 0 /\ LiveCells(Shown) = BlinkerCells) =>
        /\ nCmds = 1 => LiveCells(Front) = FlippedCells
        /\ nCmds = 2 => LiveCells(Front) = BlinkerCells

\* C15 (as claimed): on every grid of 3 x 3 cells or larger the blinker
\* (1,0), (1,1), (1,2) becomes the perpendicular line through (1,1) after
\* one step() and the original three cells after a second.
C15_BlinkerAnySize ==
    (display.gol # 0 /\ Shown.w >= 3 /\ Shown.h >= 3) => BlinkerFlips

\* C15 (amended): the same on every grid at least 4 wide and 4 high; with a
\* side of 3 the line meets itself across the wrapped edge.
C15_BlinkerFrom4 ==
    (display.gol # 0 /\ Shown.w >= 4 /\ Shown.h >= 4) => BlinkerFlips

\* The blinker on a 4 x 4 grid after its second step, the first having
\* left the perpendicular line in what is now back.
C15_Witness ==
    /\ display.gol # 0 /\ nCmds = 2 /\ last.op = "step"
    /\ Shown.w = 4 /\ Shown.h = 4
    /\ LiveCells(Shown) = BlinkerCells
    /\ LiveCells(Front) = BlinkerCells
    /\ LiveCells(Back) = FlippedCells

\* C19 (as claimed): outside a step in progress, after at least two
\* consecutive step() calls with no set or poke between them, front holds
\* a fully computed generation G and back holds the generation two
\* generations before G.
C19_BackTwoBefore ==
    (display.gol # 0 /\ nCmds >= 2) =>
        /\ Front.px = Gen(Shown, nCmds).px
        /\ Back.px = Gen(Shown, nCmds - 2).px

\* C19 (amended): outside a step in progress, after at least two
\* consecutive step() calls with no set or poke between them, front holds
\* a fully computed generation G and back holds the generation immediately
\* before G, the one G was computed from.
C19_BackOneBefore ==
    (display.gol # 0 /\ nCmds >= 2) =>
        /\ Front.px = Gen(Shown, nCmds).px
        /\ Back.px = Gen(Shown, nCmds - 1).px
        /\ gols[display.gol].front # gols[display.gol].back

\* Three consecutive steps through generations that all differ: back holds
\* the second and front the third.
C19_Witness ==
    /\ display.gol # 0 /\ nCmds = 3 /\ last.op = "step"
    /\ Front.px = Gen(Shown, 3).px
    /\ Back.px = Gen(Shown, 2).px
    /\ Cardinality({Gen(Shown, n).px : n \in 0..3}) = 4

\* The command left every cell of front dead and touched nothing else.
Cleared(i) ==
    /\ tex'[gols[i].front].px = Zeros(StateW(gols[i]) * StateH(gols[i]))
    /\ GetState(tex', gols'[i]) = Zeros(StateLen(gols[i]))
    /\ tex'[gols[i].back] = tex[gols[i].back]
    /\ gols' = gols

\* setEmpty() and set() of an all-false array of width * height cells both
\* clear front; a setEmpty() right after a setEmpty() changes no texel.
ClearSteps ==
    /\ Did("setEmpty") => Cleared(last'.gol)
    /\ (/\ Did("set")
        /\ last'.arr = Zeros(StateW(gols[last'.gol])
                               * StateH(gols[last'.gol])))
            => Cleared(last'.gol)
    /\ (Did("setEmpty") /\ last.op = "setEmpty") => tex' = tex

\* C16: setEmpty() makes every cell of front dead from any prior state, has
\* the same effect as set() with an all-false array of length
\* width * height, and is idempotent: calling it twice yields the same
\* all-dead front as calling it once.
C16_SetEmpty == [][ClearSteps]_vars

\* setEmpty() right after a draw() that showed live and dead cells: front
\* is all dead and the display still shows what it cleared.
C16_Witness ==
    /\ last.op = "setEmpty" /\ nCmds = 2
    /\ display.gol = 1
    /\ \E i \in DOMAIN display.px : display.px[i] = 255
    /\ \E i \in DOMAIN display.px : display.px[i] = 0
    /\ AllDead(tex[gols[1].front])

\* restore after a save at the same resolution makes get() return the saved
\* array; the saved array is the front generation at the save and only a
\* save changes it.
SnapSteps ==
    /\ (Did("restore") /\ saved /\ Len(save) = StateLen(gols[ctl])) =>
            /\ GetState(tex', gols'[ctl]) = save
            /\ save' = save
    /\ Did("save") =>
            /\ saved'
            /\ Len(save') = StateLen(gols[ctl])
            /\ \A c \in Cells(tex[gols[ctl].front]) :
                    (save'[CellIndex(StateW(gols[ctl]), c[1], c[2])] = 1)
                        <=> Alive(tex[gols[ctl].front], c[1], c[2])
    /\ (save' # save \/ saved' # saved) => Did("save")

\* C17: save and restore round-trip at a fixed resolution: if A = get() is
\* saved, then after any sequence of step, poke, setRandom and setEmpty on
\* the same grid, set(A) followed by get() returns an array equal to A; A
\* is an independent snapshot that none of those operations modifies.
C17_SaveRestore == [][SnapSteps]_vars

\* A restore, two events after the save, of a snapshot with live and dead
\* cells over a grid that the event between had changed and drawn.
C17_Witness ==
    /\ last.op = "restore" /\ nCmds = 3 /\ saved
    /\ GetState(tex, gols[ctl]) = save
    /\ \E i \in DOMAIN save : save[i] = 1
    /\ \E i \in DOMAIN save : save[i] = 0
    /\ display.px # tex[gols[ctl].front].px

\* front and back are the two textures made by the constructor.
NoAlias ==
    \A i \in 1..Len(gols) :
        /\ gols[i].front # gols[i].back
        /\ {gols[i].front, gols[i].back} = {2 * i - 1, 2 * i}

\* swap() exchanges the roles and moves no data; a swap right after a swap
\* gives back the roles the first one found.
SwapSteps ==
    /\ Did("swap") =>
            /\ gols'[last'.gol].front = gols[last'.gol].back
            /\ gols'[last'.gol].back = gols[last'.gol].front
            /\ tex' = tex
    /\ (Did("swap") /\ last.op = "swap") =>
            /\ gols'[last'.gol].front = last.x
            /\ gols'[last'.gol].back = last.y

\* C18: swap() only exchanges the front and back roles, changing no cell of
\* either buffer; two consecutive swaps restore the original roles; after
\* any sequence of step, swap, set, poke and get, front and back are the
\* two distinct buffers created at construction.
C18_SwapRoles == [](NoAlias) /\ [][SwapSteps]_vars

\* A second swap in a row: the texture the constructor made front, holding
\* live cells, is front again.
C18_Witness ==
    /\ last.op = "swap" /\ nCmds = 2
    /\ last.x = 2 /\ last.y = 1
    /\ gols[1].front = 1 /\ gols[1].back = 2
    /\ ~AllDead(tex[1])

\* After a comma or a period the active instance is Running, the browser
\* has one timer, a new one, and its period is the interval just computed.
TempoSteps ==
    (Did("comma") \/ Did("period")) =>
        /\ gols'[ctl].interval =
                IF last'.op = "period" THEN gols[ctl].interval \div 2
                ELSE IF gols[ctl].interval = 0 THEN 1
                ELSE 2 * gols[ctl].interval
        /\ gols'[ctl].timer # 0
        /\ gols'[ctl].timer \notin {t.id : t \in timers}
        /\ timers' = {[id  |-> gols'[ctl].timer,
                       gol |-> ctl,
                       ms  |-> gols'[ctl].interval]}

\* C20: an interval-doubling or interval-halving command always leaves the
\* simulation Running with exactly one timer scheduled at the newly
\* computed interval, whatever the run state was before the command, also
\* when the simulation was Stopped (paused) before it.
C20_TempoRestarts == [][TempoSteps]_vars

\* A period pressed while paused: the space before it stopped timer 1 and
\* made none, no tick has swapped the buffers, and timer 2 now runs at
\* half the initial interval.
C20_Witness ==
    /\ last.op = "period" /\ nCmds = 2
    /\ nextTimer = 3
    /\ gols[ctl].front = 1
    /\ gols[ctl].interval = 30
    /\ timers = {[id |-> 2, gol |-> ctl, ms |-> 30]}
    /\ gols[ctl].timer = 2

====
